---- MODULE Spec2Model ----
(***************************************************************************)
(* Model of internal/bridge/mocks.go: the test harness Mocks (the gomock   *)
(* expectations it registers, its TLSIssueCh channel and Close) and the    *)
(* TestUpdater (two version records behind one sync.RWMutex), called by a  *)
(* bounded number of goroutines.                                           *)
(*                                                                         *)
(* A struct assignment or a struct copy in Go is not atomic: it is         *)
(* modelled word by word (one step per field), so that it is the lock,     *)
(* and nothing else, that keeps a reader from seeing half of a write.      *)
(*                                                                         *)
(* A call is a sequence of steps of one goroutine. The value a call        *)
(* returns is complete in ret[p] in the state before its last step (pc[p]  *)
(* is "RUnlock" for the two getters, "Ret" for the rest); the last step    *)
(* returns to the caller and clears the goroutine's frame.                 *)
(***************************************************************************)
EXTENDS Integers, Sequences, FiniteSets, TLC

\* ------------------------------------------------------------------ bounds
NumProcs == 2          \* goroutines calling into the harness
MaxSets == 2           \* Set calls started, over both fields
MaxMockCalls == 3      \* calls made on the gomock mocks
MaxJarCalls == 3       \* calls made on the TestCookieJar

\* ------------------------------------------------------- program constants
FullRollout == 1       \* RolloutProportion: 1.0
HeartbeatMs == 500     \* 500 * time.Millisecond

Procs == 1..NumProcs

\* The goroutine whose successive reads are followed (any one: they are alike).
Poller == CHOOSE p \in Procs : \A q \in Procs : p <= q

\* The (version, minAuto) pairs the constructor and SetLatestVersionLegacy are
\* called with.
LegacyArgs == {<<"1.0.0", "0.9.0">>, <<"2.0.0", "1.0.0">>}

VARIABLES
    latest,        \* TestUpdater.latest   (updater.VersionInfoLegacy)
    releases,      \* TestUpdater.releases (updater.VersionInfo)
    lock,          \* TestUpdater.lock     (sync.RWMutex)
    TLSIssueCh,    \* Mocks.TLSIssueCh: the channel the field holds
    chans,         \* the channels made so far: channel -> its state
    expectations,  \* what NewMocks registered with the gomock controller
    ctl,           \* the gomock controller (ctl, bound to tb): the calls it answered
                   \* per expectation, the failures it reported, whether it
                   \* has been evaluated
    pc,            \* where each goroutine is
    op,            \* the operation each goroutine is in
    arg,           \* the arguments of that operation that the code names (and, for a
                   \* traced call, those it was made with)
    ret,           \* that operation's result (being built, or about to be returned)
    hist,          \* per field, the arguments of the constructor and of the Set calls
                   \* that have returned, in the order they returned
    startSeq,      \* per goroutine: Len(hist) of the field when its Get was called
    readSeq,       \* per goroutine: Len(hist) of the field when its Get read it
    seen,          \* per field: the readSeq of the last Get goroutine Poller returned from
    closers,       \* the close calls on TLSIssueCh so far, in order: how each was made
    jar,           \* TestCookieJar.cookies of one jar (map[string][]*http.Cookie)
    jarCalls       \* the calls made on that jar, in order: method, URL, and the
                   \* cookies passed or returned

vars == <<latest, releases, lock, TLSIssueCh, chans, expectations, ctl, pc, op, arg, ret,
          hist, startSeq, readSeq, seen, closers, jar, jarCalls>>

jarVars == <<jar, jarCalls>>

updaterVars == <<latest, releases, lock>>
harnessVars == <<TLSIssueCh, chans, expectations, ctl>>
ghostGet == <<startSeq, readSeq>>

\* ------------------------------------------------------------------ values
\* updater.VersionInfoLegacy, the three fields the source sets.
VersionInfoLegacy(version, minAuto, rollout) ==
    [Version |-> version, MinAuto |-> minAuto, RolloutProportion |-> rollout]

\* updater.VersionInfo: a struct of more than one word (a slice header); release
\* info x is the header of slice x, the zero value is the nil slice.
VersionInfo(x) == [ptr |-> x, len |-> x]

ZeroVersionInfo == VersionInfo("zero")

\* The release infos SetLatestVersion is called with.
ReleaseArgs == {VersionInfo("A"), VersionInfo("B")}

ZeroVersionInfoLegacy == VersionInfoLegacy("nil", "nil", 0)

NilErr == "nil"

NoPanic == "none"

\* No value: what a method without a result value returns (a record, as the
\* version records are).
NoVal == [none |-> TRUE]

NoRet == [val |-> NoVal, err |-> NilErr, panic |-> NoPanic]

\* ------------------------------------------------------------- sync.RWMutex
\* The zero sync.RWMutex: no writer holds or waits for it (writer is empty, and
\* else holds the one goroutine that does), no reader holds it.
ZeroRWMutex == [writer |-> {}, readers |-> {}]

\* (a variant: Lock() that takes the writers' mutex whoever holds it)
CanLockAlways(l) == TRUE

\* Lock() first takes the writers' mutex and announces the writer: from then on
\* new readers wait. It is free to do so when no writer holds or waits.
CanLock(l) == l.writer = {}

\* (a variant: Lock() that does not wait for the readers inside to leave)
CanEnterAlways(l) == TRUE

\* The announced writer enters once the readers that were inside have left.
CanEnter(l) == l.readers = {}

\* (a variant: RLock() that lets a reader in whatever a writer is doing)
CanRLockAlways(l) == TRUE

\* RLock() enters at once unless a writer holds the lock or waits for it.
CanRLock(l) == l.writer = {}

\* -------------------------------------------------------------- constructors
\* (a variant: RolloutProportion left out of the literal, so at its zero value)
NewTestUpdaterNoRollout(version, minAuto) ==
    [latest   |-> VersionInfoLegacy(version, minAuto, 0),
     releases |-> ZeroVersionInfo,
     lock     |-> ZeroRWMutex]

\* NewTestUpdater: latest is set, releases and lock keep their zero values.
NewTestUpdater(version, minAuto) ==
    [latest   |-> VersionInfoLegacy(version, minAuto, FullRollout),
     releases |-> ZeroVersionInfo,
     lock     |-> ZeroRWMutex]

\* make(chan struct{}): the one channel NewMocks makes; open, nobody sending.
MakeChan == "chan@NewMocks"

NewChan == [closed |-> FALSE, sendq |-> {}]

AnyArg == "gomock.Any()"

AnyTimes == "AnyTimes"

\* An expectation as NewMocks registers it: EXPECT().Method(args).Return(r).AnyTimes()
Expect(recv, method, args, r) ==
    [recv |-> recv, method |-> method, args |-> args, times |-> AnyTimes, ret |-> r]

\* (a variant: Return() given a channel made for it, not the field's)
ReturnedChanFresh(ch) == "chan@Return"

\* The channel GetTLSIssueCh is programmed to return: Return(mocks.TLSIssueCh).
ReturnedChan(ch) == ch

\* The one message NewMocks lets the Reporter mock be called with.
SyncMessage == "Failed to sync, will retry later"

\* gomock.NewController(tb): nothing answered, nothing reported, not evaluated.
NewController(n) ==
    [calls |-> [k \in 1..n |-> 0], ncalls |-> 0, failures |-> {}, finished |-> FALSE]

\* (a variant: AnyTimes() left out of the HandlePanic expectation)
NewMocksOnce(version, minAuto) ==
    LET ch == MakeChan IN
    [TLSIssueCh   |-> ch,
     Updater      |-> NewTestUpdater(version, minAuto),
     expectations |->
        <<Expect("TLSReporter", "GetTLSIssueCh", <<>>, ReturnedChan(ch)),
         [Expect("CrashHandler", "HandlePanic", <<AnyArg>>, NoVal) EXCEPT !.times = "Once"],
         Expect("Heartbeat", "IsTelemetryAvailable", <<AnyArg>>, NoVal),
         Expect("Heartbeat", "GetHeartbeatPeriodicInterval", <<>>, HeartbeatMs),
         Expect("Reporter", "ReportMessageWithContext", <<SyncMessage, AnyArg>>, NoVal)>>]

\* NewMocks(tb, version, minAuto): the harness and the five expectations, in the order
\* they are registered.
NewMocks(version, minAuto) ==
    LET ch == MakeChan IN
    [TLSIssueCh   |-> ch,
     Updater      |-> NewTestUpdater(version, minAuto),
     expectations |->
        <<Expect("TLSReporter", "GetTLSIssueCh", <<>>, ReturnedChan(ch)),
         Expect("CrashHandler", "HandlePanic", <<AnyArg>>, NoVal),
         Expect("Heartbeat", "IsTelemetryAvailable", <<AnyArg>>, NoVal),
         Expect("Heartbeat", "GetHeartbeatPeriodicInterval", <<>>, HeartbeatMs),
         Expect("Reporter", "ReportMessageWithContext",
                <<SyncMessage, AnyArg>>, NoVal)>>]

\* make(map[string][]*http.Cookie): the map with no key.
MakeMap == <<>>

\* NewTestCookieJar()
NewTestCookieJar == [cookies |-> MakeMap]

Init ==
    \E a \in LegacyArgs :
        LET mocks == NewMocks(a[1], a[2]) IN
        /\ latest = mocks.Updater.latest
        /\ releases = mocks.Updater.releases
        /\ lock = mocks.Updater.lock
        /\ TLSIssueCh = mocks.TLSIssueCh
        /\ chans = [c \in {MakeChan} |-> NewChan]
        /\ expectations = mocks.expectations
        /\ ctl = NewController(Len(mocks.expectations))
        /\ pc = [p \in Procs |-> "idle"]
        /\ op = [p \in Procs |-> "none"]
        /\ arg = [p \in Procs |-> <<>>]
        /\ ret = [p \in Procs |-> NoRet]
        /\ hist = [legacy |-> <<a>>, releases |-> << <<ZeroVersionInfo>> >>]
        /\ startSeq = [p \in Procs |-> 0]
        /\ readSeq = [p \in Procs |-> 0]
        /\ seen = [legacy |-> 1, releases |-> 1]
        /\ closers = <<>>
        /\ jar = NewTestCookieJar.cookies
        /\ jarCalls = <<>>

\* ------------------------------------------------------------------ helpers
Setters == {"SetLatestVersionLegacy", "SetLatestVersion"}

Getters == {"GetVersionInfoLegacy", "GetVersionInfo"}

\* The field an operation writes or reads.
FieldOf(o) ==
    IF o \in {"SetLatestVersionLegacy", "GetVersionInfoLegacy"} THEN "legacy" ELSE "releases"

InCall(p) == pc[p] \notin {"idle", "panicked"}

\* Set calls started so far: the returned ones and those in progress.
SetsStarted ==
    Len(hist["legacy"]) - 1 + Len(hist["releases"]) - 1
      + Cardinality({p \in Procs : InCall(p) /\ op[p] \in Setters})

\* The frame of goroutine p is cleared when its call returns.
Cleared(f, p, v) == [f EXCEPT ![p] = v]

\* ------------------------------------------------- the lock's steps (shared)
\* testUpdater.lock.Lock() as goroutine p runs it: it takes the writers' mutex if
\* that is free and announces itself, then enters if no reader is inside and
\* else waits for the readers to leave; if the mutex is taken it waits for it.
LockAttempt(p) ==
    IF CanLock(lock)
    THEN /\ lock' = [lock EXCEPT !.writer = {p}]
         /\ pc' = [pc EXCEPT ![p] = IF CanEnter(lock) THEN "W1" ELSE "LockWait"]
    ELSE /\ pc' = [pc EXCEPT ![p] = "Lock"]
         /\ UNCHANGED lock

\* A goroutine that waited for the writers' mutex gets it.
Lock(p) ==
    /\ pc[p] = "Lock"
    /\ CanLock(lock)
    /\ LockAttempt(p)
    /\ UNCHANGED <<latest, releases, harnessVars, op, arg, ret, hist, ghostGet, seen, closers, jarVars>>

\* The announced writer enters: the readers have left.
LockEnter(p) ==
    /\ pc[p] = "LockWait"
    /\ lock.writer = {p}
    /\ CanEnter(lock)
    /\ pc' = [pc EXCEPT ![p] = "W1"]
    /\ UNCHANGED <<updaterVars, harnessVars, op, arg, ret, hist, ghostGet, seen, closers, jarVars>>

\* (a variant: an Unlock() that does not let the waiting readers in)
UnlockNoWake(p) ==
    /\ pc[p] = "Unlock"
    /\ lock' = [lock EXCEPT !.writer = {}]
    /\ pc' = [pc EXCEPT ![p] = "idle"]
    /\ hist' = [hist EXCEPT ![FieldOf(op[p])] = Append(@, arg[p])]
    /\ op' = Cleared(op, p, "none")
    /\ arg' = Cleared(arg, p, <<>>)
    /\ UNCHANGED <<latest, releases, harnessVars, ret, ghostGet, seen, closers, jarVars>>

\* defer testUpdater.lock.Unlock(), then return: the readers that waited for this
\* writer are let in together, before any later writer.
Unlock(p) ==
    /\ pc[p] = "Unlock"
    /\ LET woken == {q \in Procs : pc[q] = "RWait"} IN
       /\ lock' = [writer |-> {}, readers |-> lock.readers \cup woken]
       /\ pc' = [q \in Procs |-> IF q = p THEN "idle"
                                 ELSE IF q \in woken THEN "R1" ELSE pc[q]]
    /\ hist' = [hist EXCEPT ![FieldOf(op[p])] = Append(@, arg[p])]
    /\ op' = Cleared(op, p, "none")
    /\ arg' = Cleared(arg, p, <<>>)
    /\ UNCHANGED <<latest, releases, harnessVars, ret, ghostGet, seen, closers, jarVars>>

\* testUpdater.lock.RLock() as goroutine p runs it: it enters, or waits for the
\* writer to unlock (Unlock lets it in).
RLock(p) ==
    IF CanRLock(lock)
    THEN /\ lock' = [lock EXCEPT !.readers = @ \cup {p}]
         /\ pc' = [pc EXCEPT ![p] = "R1"]
    ELSE /\ pc' = [pc EXCEPT ![p] = "RWait"]
         /\ UNCHANGED lock

\* defer testUpdater.lock.RUnlock(), then return what was copied, and a nil error.
RUnlock(p) ==
    /\ pc[p] = "RUnlock"
    /\ lock' = [lock EXCEPT !.readers = @ \ {p}]
    /\ pc' = [pc EXCEPT ![p] = "idle"]
    /\ seen' = IF p = Poller THEN [seen EXCEPT ![FieldOf(op[p])] = readSeq[p]] ELSE seen
    /\ op' = Cleared(op, p, "none")
    /\ ret' = Cleared(ret, p, NoRet)
    /\ arg' = Cleared(arg, p, <<>>)
    /\ startSeq' = Cleared(startSeq, p, 0)
    /\ readSeq' = Cleared(readSeq, p, 0)
    /\ UNCHANGED <<latest, releases, harnessVars, hist, closers, jarVars>>

\* return, from a method that holds no lock.
Return(p) ==
    /\ pc[p] = "Ret"
    /\ pc' = [pc EXCEPT ![p] = "idle"]
    /\ op' = Cleared(op, p, "none")
    /\ arg' = Cleared(arg, p, <<>>)
    /\ ret' = Cleared(ret, p, NoRet)
    /\ UNCHANGED <<updaterVars, harnessVars, hist, ghostGet, seen, closers, jarVars>>

\* --------------------------------------------------------------- TestUpdater
\* SetLatestVersionLegacy(version, minAuto): the call, up to where Lock() gets it.
SetLatestVersionLegacyCall(p) ==
    /\ pc[p] = "idle"
    /\ SetsStarted < MaxSets
    /\ \E a \in LegacyArgs : arg' = [arg EXCEPT ![p] = a]
    /\ op' = [op EXCEPT ![p] = "SetLatestVersionLegacy"]
    /\ LockAttempt(p)
    /\ UNCHANGED <<latest, releases, harnessVars, ret, hist, startSeq, readSeq, seen, closers, jarVars>>

\* (a variant: the two versions stored in each other's field)
NewLatestSwapped(version, minAuto) == VersionInfoLegacy(minAuto, version, FullRollout)

\* (a variant: RolloutProportion left out of the literal SetLatestVersionLegacy
\* assigns)
NewLatestNoRollout(version, minAuto) == VersionInfoLegacy(version, minAuto, 0)

\* The record SetLatestVersionLegacy builds from its arguments.
NewLatest(version, minAuto) == VersionInfoLegacy(version, minAuto, FullRollout)

\* (a variant: the version that was stored is kept as the new MinAuto)
SetLatestVersionLegacyWriteKeepsOld(p) ==
    /\ op[p] = "SetLatestVersionLegacy"
    /\ LET new == NewLatest(arg[p][1], arg[p][2]) IN
       \/ /\ pc[p] = "W1"
          /\ latest' = [latest EXCEPT !.Version = new.Version, !.MinAuto = latest.Version]
          /\ pc' = [pc EXCEPT ![p] = "W2"]
       \/ /\ pc[p] = "W2"
          /\ latest' = [latest EXCEPT !.RolloutProportion = new.RolloutProportion]
          /\ pc' = [pc EXCEPT ![p] = "Unlock"]
    /\ UNCHANGED <<releases, lock, harnessVars, op, arg, ret, hist, ghostGet, seen, closers, jarVars>>

\* testUpdater.latest = updater.VersionInfoLegacy{...}, inside the lock, field by
\* field.
SetLatestVersionLegacyWrite(p) ==
    /\ op[p] = "SetLatestVersionLegacy"
    /\ LET new == NewLatest(arg[p][1], arg[p][2]) IN
       \/ /\ pc[p] = "W1"
          /\ latest' = [latest EXCEPT !.Version = new.Version]
          /\ pc' = [pc EXCEPT ![p] = "W2"]
       \/ /\ pc[p] = "W2"
          /\ latest' = [latest EXCEPT !.MinAuto = new.MinAuto,
                                      !.RolloutProportion = new.RolloutProportion]
          /\ pc' = [pc EXCEPT ![p] = "Unlock"]
    /\ UNCHANGED <<releases, lock, harnessVars, op, arg, ret, hist, ghostGet, seen, closers, jarVars>>

\* (a variant: a cancelled context makes the call return its error at once)
GetVersionInfoLegacyChecked(p, ctx, downloader, channel) ==
    /\ pc[p] = "idle"
    /\ op' = [op EXCEPT ![p] = "GetVersionInfoLegacy"]
    /\ IF ctx = "cancelled"
       THEN /\ pc' = [pc EXCEPT ![p] = "RUnlock"]
            /\ ret' = [ret EXCEPT ![p] = [NoRet EXCEPT !.val = ZeroVersionInfoLegacy,
                                                       !.err = "context canceled"]]
            /\ UNCHANGED lock
       ELSE /\ RLock(p)
            /\ ret' = [ret EXCEPT ![p] = [NoRet EXCEPT !.val = ZeroVersionInfoLegacy]]
    /\ startSeq' = [startSeq EXCEPT ![p] = Len(hist["legacy"])]
    /\ UNCHANGED <<latest, releases, harnessVars, hist, readSeq, seen, closers, jarVars>>

\* GetVersionInfoLegacy(ctx, downloader, channel): the call, up to where RLock()
\* gets it. The three parameters are not named in the source: the body cannot
\* read them.
GetVersionInfoLegacy(p, ctx, downloader, channel) ==
    /\ pc[p] = "idle"
    /\ op' = [op EXCEPT ![p] = "GetVersionInfoLegacy"]
    /\ RLock(p)
    /\ ret' = [ret EXCEPT ![p] = [NoRet EXCEPT !.val = ZeroVersionInfoLegacy]]
    /\ startSeq' = [startSeq EXCEPT ![p] = Len(hist["legacy"])]
    /\ UNCHANGED <<latest, releases, harnessVars, hist, readSeq, seen, closers, jarVars>>

\* The contexts, downloaders and channels the getters are called with.
Contexts == {"nil", "live", "cancelled"}

Downloaders == {"nil", "set"}

Channels == {"stable", "early"}

\* A call of GetVersionInfoLegacy with any arguments; nothing keeps them.
GetVersionInfoLegacyCall(p) ==
    \E ctx \in Contexts, downloader \in Downloaders, channel \in Channels :
        /\ GetVersionInfoLegacy(p, ctx, downloader, channel)
        /\ UNCHANGED arg

\* The argument lists of the calls whose arguments are followed: two that differ
\* in every argument, one of them with a cancelled context.
TracedLegacyArgs == {<<"cancelled", "nil", "stable">>, <<"live", "set", "early">>}

TracedArgs == {<<"cancelled", "nil">>, <<"live", "set">>}

\* The same call, with the arguments it was made with noted in arg[p] (for the
\* properties that compare calls by their arguments).
GetVersionInfoLegacyTraced(p) ==
    \E a \in TracedLegacyArgs :
        /\ GetVersionInfoLegacy(p, a[1], a[2], a[3])
        /\ arg' = [arg EXCEPT ![p] = a]

\* return testUpdater.latest, nil: the record is copied out field by field.
GetVersionInfoLegacyRead(p) ==
    /\ op[p] = "GetVersionInfoLegacy"
    /\ \/ /\ pc[p] = "R1"
          /\ ret' = [ret EXCEPT ![p].val.Version = latest.Version]
          /\ pc' = [pc EXCEPT ![p] = "R2"]
          /\ UNCHANGED readSeq
       \/ /\ pc[p] = "R2"
          /\ ret' = [ret EXCEPT ![p].val.MinAuto = latest.MinAuto,
                                ![p].val.RolloutProportion = latest.RolloutProportion,
                                ![p].err = NilErr]
          /\ pc' = [pc EXCEPT ![p] = "RUnlock"]
          /\ readSeq' = [readSeq EXCEPT ![p] = Len(hist["legacy"])]
    /\ UNCHANGED <<updaterVars, harnessVars, op, arg, hist, startSeq, seen, closers, jarVars>>

\* SetLatestVersion(releases): the call, up to where Lock() gets it.
SetLatestVersionCall(p) ==
    /\ pc[p] = "idle"
    /\ SetsStarted < MaxSets
    /\ \E r \in ReleaseArgs : arg' = [arg EXCEPT ![p] = <<r>>]
    /\ op' = [op EXCEPT ![p] = "SetLatestVersion"]
    /\ LockAttempt(p)
    /\ UNCHANGED <<latest, releases, harnessVars, ret, hist, startSeq, readSeq, seen, closers, jarVars>>

\* (a variant: the argument stored without its releases)
NewReleasesEmptied(r) == [r EXCEPT !.len = "zero"]

\* The value SetLatestVersion stores: its argument as it is.
NewReleases(r) == r

\* (a variant: the assignment also resets testUpdater.latest)
SetLatestVersionWriteBoth(p) ==
    /\ op[p] = "SetLatestVersion"
    /\ LET new == NewReleases(arg[p][1]) IN
       \/ /\ pc[p] = "W1"
          /\ releases' = [releases EXCEPT !.ptr = new.ptr]
          /\ latest' = ZeroVersionInfoLegacy
          /\ pc' = [pc EXCEPT ![p] = "W2"]
       \/ /\ pc[p] = "W2"
          /\ releases' = [releases EXCEPT !.len = new.len]
          /\ latest' = latest
          /\ pc' = [pc EXCEPT ![p] = "Unlock"]
    /\ UNCHANGED <<lock, harnessVars, op, arg, ret, hist, ghostGet, seen, closers, jarVars>>

\* testUpdater.releases = releases, inside the lock, word by word.
SetLatestVersionWrite(p) ==
    /\ op[p] = "SetLatestVersion"
    /\ LET new == NewReleases(arg[p][1]) IN
       \/ /\ pc[p] = "W1"
          /\ releases' = [releases EXCEPT !.ptr = new.ptr]
          /\ pc' = [pc EXCEPT ![p] = "W2"]
       \/ /\ pc[p] = "W2"
          /\ releases' = [releases EXCEPT !.len = new.len]
          /\ pc' = [pc EXCEPT ![p] = "Unlock"]
    /\ UNCHANGED <<latest, lock, harnessVars, op, arg, ret, hist, ghostGet, seen, closers, jarVars>>

\* GetVersionInfo(ctx, downloader): the call, up to where RLock() gets it. The
\* two parameters are not named in the source.
GetVersionInfo(p, ctx, downloader) ==
    /\ pc[p] = "idle"
    /\ op' = [op EXCEPT ![p] = "GetVersionInfo"]
    /\ RLock(p)
    /\ ret' = [ret EXCEPT ![p] = [NoRet EXCEPT !.val = ZeroVersionInfo]]
    /\ startSeq' = [startSeq EXCEPT ![p] = Len(hist["releases"])]
    /\ UNCHANGED <<latest, releases, harnessVars, hist, readSeq, seen, closers, jarVars>>

\* A call of GetVersionInfo with any arguments; nothing keeps them.
GetVersionInfoCall(p) ==
    \E ctx \in Contexts, downloader \in Downloaders :
        /\ GetVersionInfo(p, ctx, downloader)
        /\ UNCHANGED arg

\* The same call, with its arguments noted in arg[p].
GetVersionInfoTraced(p) ==
    \E a \in TracedArgs :
        /\ GetVersionInfo(p, a[1], a[2])
        /\ arg' = [arg EXCEPT ![p] = a]

\* return testUpdater.releases, nil: copied out word by word.
GetVersionInfoRead(p) ==
    /\ op[p] = "GetVersionInfo"
    /\ \/ /\ pc[p] = "R1"
          /\ ret' = [ret EXCEPT ![p].val.ptr = releases.ptr]
          /\ pc' = [pc EXCEPT ![p] = "R2"]
          /\ UNCHANGED readSeq
       \/ /\ pc[p] = "R2"
          /\ ret' = [ret EXCEPT ![p].val.len = releases.len, ![p].err = NilErr]
          /\ pc' = [pc EXCEPT ![p] = "RUnlock"]
          /\ readSeq' = [readSeq EXCEPT ![p] = Len(hist["releases"])]
    /\ UNCHANGED <<updaterVars, harnessVars, op, arg, hist, startSeq, seen, closers, jarVars>>

\* (a variant: an error for a nil context or a nil downloader)
InstallResultChecked(o, a) ==
    [NoRet EXCEPT !.err = IF \E i \in 1..Len(a) : a[i] = "nil" THEN "error" ELSE NilErr]

\* What InstallUpdateLegacy, RemoveOldUpdates and InstallUpdate return for
\* arguments a: return nil.
InstallResult(o, a) == [NoRet EXCEPT !.err = NilErr]

\* The fields of the TestUpdater after one of the three: nothing is assigned.
InstallEffect(o, a) == [latest |-> latest, releases |-> releases, lock |-> lock]

\* (a variant: the method takes the read lock first, so it waits for a writer)
NoOpLocked(p, o, a) ==
    /\ pc[p] = "idle"
    /\ CanRLock(lock)
    /\ op' = [op EXCEPT ![p] = o]
    /\ pc' = [pc EXCEPT ![p] = "Ret"]
    /\ ret' = [ret EXCEPT ![p] = InstallResult(o, a)]
    /\ UNCHANGED <<updaterVars, harnessVars, arg, hist, ghostGet, seen, closers, jarVars>>

\* A method whose body is `return nil`: it takes no lock and waits for nothing.
NoOp(p, o, a) ==
    /\ pc[p] = "idle"
    /\ op' = [op EXCEPT ![p] = o]
    /\ pc' = [pc EXCEPT ![p] = "Ret"]
    /\ ret' = [ret EXCEPT ![p] = InstallResult(o, a)]
    /\ latest' = InstallEffect(o, a).latest
    /\ releases' = InstallEffect(o, a).releases
    /\ lock' = InstallEffect(o, a).lock
    /\ UNCHANGED <<harnessVars, arg, hist, ghostGet, seen, closers, jarVars>>

\* InstallUpdateLegacy(ctx, downloader, versionInfoLegacy)
InstallUpdateLegacy(p) ==
    \E ctx \in {"nil", "live"}, downloader \in {"nil", "set"},
       info \in {ZeroVersionInfoLegacy, latest} :
        NoOp(p, "InstallUpdateLegacy", <<ctx, downloader, info>>)

\* RemoveOldUpdates()
RemoveOldUpdates(p) == NoOp(p, "RemoveOldUpdates", <<>>)

\* InstallUpdate(ctx, downloader, release)
InstallUpdate(p) ==
    \E ctx \in {"nil", "live"}, downloader \in {"nil", "set"},
       release \in {ZeroVersionInfo, releases} :
        NoOp(p, "InstallUpdate", <<ctx, downloader, release>>)

\* --------------------------------------------------------------------- Mocks
\* The expectations (their places in the order of registration) that match a call
\* on a mock.
Matching(recv, method, args) ==
    {k \in 1..Len(expectations) :
        LET e == expectations[k] IN
        /\ e.recv = recv
        /\ e.method = method
        /\ Len(e.args) = Len(args)
        /\ \A i \in 1..Len(args) : e.args[i] = AnyArg \/ e.args[i] = args[i]}

\* An expectation answers a call while it has calls left: AnyTimes() leaves it
\* calls for ever, without it the expectation is for one call.
Exhausted(e, n) == e.times # AnyTimes /\ n >= 1

\* The calls an expectation needs for the controller's evaluation to pass.
MinCalls(e) == IF e.times = AnyTimes THEN 0 ELSE 1

\* A call of a method of a mock by goroutine p: the first matching expectation
\* with calls left answers it with its Return value (none: the zero value);
\* with no such expectation the controller reports an unexpected call.
MockCall(p, recv, method, args) ==
    /\ pc[p] = "idle"
    /\ ctl.ncalls < MaxMockCalls
    /\ op' = [op EXCEPT ![p] = method]
    /\ arg' = [arg EXCEPT ![p] = args]
    /\ pc' = [pc EXCEPT ![p] = "Ret"]
    /\ LET m == {k \in Matching(recv, method, args) :
                    ~Exhausted(expectations[k], ctl.calls[k])}
       IN  IF m # {}
           THEN LET first == CHOOSE k \in m : \A j \in m : k <= j IN
                /\ ret' = [ret EXCEPT ![p] = [NoRet EXCEPT !.val = expectations[first].ret]]
                /\ ctl' = [ctl EXCEPT !.calls[first] = @ + 1, !.ncalls = @ + 1]
           ELSE /\ ret' = [ret EXCEPT ![p] = NoRet]
                /\ ctl' = [ctl EXCEPT !.ncalls = @ + 1,
                                      !.failures = @ \cup {<<"unexpected call", recv, method>>}]
    /\ UNCHANGED <<updaterVars, TLSIssueCh, chans, expectations, hist, ghostGet, seen, closers, jarVars>>

\* mocks.TLSReporter.GetTLSIssueCh()
GetTLSIssueCh(p) == MockCall(p, "TLSReporter", "GetTLSIssueCh", <<>>)

\* mocks.CrashHandler.HandlePanic(r), at the end of a goroutine: r is what
\* recover() gave.
HandlePanic(p) ==
    \E r \in {"nil", "runtime error"} : MockCall(p, "CrashHandler", "HandlePanic", <<r>>)

\* mocks.Heartbeat.IsTelemetryAvailable(ctx)
IsTelemetryAvailable(p) ==
    \E ctx \in Contexts : MockCall(p, "Heartbeat", "IsTelemetryAvailable", <<ctx>>)

\* mocks.Heartbeat.GetHeartbeatPeriodicInterval()
GetHeartbeatPeriodicInterval(p) ==
    MockCall(p, "Heartbeat", "GetHeartbeatPeriodicInterval", <<>>)

\* mocks.Reporter.ReportMessageWithContext(message, context)
ReportMessageWithContext(p, message) ==
    \E context \in {"nil", "set"} :
        MockCall(p, "Reporter", "ReportMessageWithContext", <<message, context>>)

\* The report made when a context is cancelled during sync.
ReportSyncFailure(p) == ReportMessageWithContext(p, SyncMessage)

\* The controller's evaluation when the test ends: an expectation that had
\* fewer calls than it needs is reported.
Finish(p) ==
    /\ pc[p] = "idle"
    /\ ~ctl.finished
    /\ op' = [op EXCEPT ![p] = "Finish"]
    /\ pc' = [pc EXCEPT ![p] = "Ret"]
    /\ ctl' = [ctl EXCEPT !.finished = TRUE,
                          !.failures = @ \cup
                              {<<"missing call", expectations[k].recv, expectations[k].method>> :
                                  k \in {j \in 1..Len(expectations) :
                                            ctl.calls[j] < MinCalls(expectations[j])}}]
    /\ UNCHANGED <<updaterVars, TLSIssueCh, chans, expectations, arg, ret, hist, ghostGet,
                   seen, closers, jarVars>>

\* (a variant: a close that does nothing when the channel is closed already)
CloseChanOnce(p, c, o) ==
    /\ pc[p] = "idle"
    /\ op' = [op EXCEPT ![p] = o]
    /\ closers' = Append(closers, o)
    /\ chans' = [chans EXCEPT ![c] = [closed |-> TRUE, sendq |-> {}]]
    /\ pc' = [q \in Procs |-> IF q = p THEN "Ret"
                              ELSE IF q \in chans[c].sendq THEN "panicked"
                              ELSE pc[q]]
    /\ ret' = [q \in Procs |->
                 IF q \in chans[c].sendq
                 THEN [NoRet EXCEPT !.panic = "send on closed channel"]
                 ELSE IF q = p THEN NoRet ELSE ret[q]]
    /\ UNCHANGED <<updaterVars, TLSIssueCh, expectations, ctl, arg, hist, ghostGet, seen, jarVars>>

\* (a variant: a close that lets the blocked senders return as if received)
CloseChanDropsSends(p, c, o) ==
    /\ pc[p] = "idle"
    /\ op' = [op EXCEPT ![p] = o]
    /\ closers' = Append(closers, o)
    /\ IF chans[c].closed
       THEN /\ pc' = [pc EXCEPT ![p] = "panicked"]
            /\ ret' = [ret EXCEPT ![p] = [NoRet EXCEPT !.panic = "close of closed channel"]]
            /\ UNCHANGED chans
       ELSE /\ chans' = [chans EXCEPT ![c] = [closed |-> TRUE, sendq |-> {}]]
            /\ pc' = [q \in Procs |-> IF q = p \/ q \in chans[c].sendq THEN "Ret" ELSE pc[q]]
            /\ ret' = [q \in Procs |-> IF q = p \/ q \in chans[c].sendq THEN NoRet ELSE ret[q]]
    /\ UNCHANGED <<updaterVars, TLSIssueCh, expectations, ctl, arg, hist, ghostGet, seen, jarVars>>

\* close(c) by goroutine p, as operation o: a closed channel makes it panic; an
\* open one is closed and every goroutine blocked in a send on it panics.
CloseChan(p, c, o) ==
    /\ pc[p] = "idle"
    /\ op' = [op EXCEPT ![p] = o]
    /\ closers' = Append(closers, o)
    /\ IF chans[c].closed
       THEN /\ pc' = [pc EXCEPT ![p] = "panicked"]
            /\ ret' = [ret EXCEPT ![p] = [NoRet EXCEPT !.panic = "close of closed channel"]]
            /\ UNCHANGED chans
       ELSE /\ chans' = [chans EXCEPT ![c] = [closed |-> TRUE, sendq |-> {}]]
            /\ pc' = [q \in Procs |-> IF q = p THEN "Ret"
                                      ELSE IF q \in chans[c].sendq THEN "panicked"
                                      ELSE pc[q]]
            /\ ret' = [q \in Procs |->
                         IF q \in chans[c].sendq
                         THEN [NoRet EXCEPT !.panic = "send on closed channel"]
                         ELSE IF q = p THEN NoRet ELSE ret[q]]
    /\ UNCHANGED <<updaterVars, TLSIssueCh, expectations, ctl, arg, hist, ghostGet, seen, jarVars>>

\* func (mocks *Mocks) Close() { close(mocks.TLSIssueCh) }
Close(p) == CloseChan(p, TLSIssueCh, "Mocks.Close")

\* TLSIssueCh is an exported field: another goroutine closes the channel itself.
OtherClose(p) == CloseChan(p, TLSIssueCh, "close")

\* Another goroutine sends on the channel (it is unbuffered: the send blocks
\* until a receiver takes it). arg keeps whether the channel was closed already.
OtherSend(p) ==
    /\ pc[p] = "idle"
    /\ op' = [op EXCEPT ![p] = "send"]
    /\ LET c == TLSIssueCh IN
       IF chans[c].closed
       THEN /\ pc' = [pc EXCEPT ![p] = "panicked"]
            /\ ret' = [ret EXCEPT ![p] = [NoRet EXCEPT !.panic = "send on closed channel"]]
            /\ arg' = [arg EXCEPT ![p] = <<"after close">>]
            /\ UNCHANGED chans
       ELSE /\ pc' = [pc EXCEPT ![p] = "Send"]
            /\ chans' = [chans EXCEPT ![c].sendq = @ \cup {p}]
            /\ arg' = [arg EXCEPT ![p] = <<"before close">>]
            /\ UNCHANGED ret
    /\ UNCHANGED <<updaterVars, TLSIssueCh, expectations, ctl, hist, ghostGet, seen, closers, jarVars>>

\* A goroutine receives from the channel GetTLSIssueCh gave it: it takes the
\* signal of one blocked sender, whose send returns.
OtherRecv(p) ==
    /\ pc[p] = "idle"
    /\ LET c == TLSIssueCh IN
       \E s \in chans[c].sendq :
          /\ chans' = [chans EXCEPT ![c].sendq = @ \ {s}]
          /\ pc' = [pc EXCEPT ![s] = "idle"]
          /\ op' = Cleared(op, s, "none")
          /\ arg' = Cleared(arg, s, <<>>)
    /\ UNCHANGED <<updaterVars, TLSIssueCh, expectations, ctl, ret, hist, ghostGet, seen, closers, jarVars>>

\* ------------------------------------------------------------- TestCookieJar
\* A *url.URL: the parts that tell two URLs apart here.
URL(scheme, host, path) == [Scheme |-> scheme, Host |-> host, Path |-> path]

\* The URLs the jar is called with: two hosts, each under two schemes and paths.
URLs ==
    {URL("http", "a.example", "/"), URL("https", "a.example", "/x"),
     URL("http", "b.example", "/"), URL("https", "b.example", "/x")}

\* The cookie lists SetCookies is called with.
CookieLists == {<<"c1">>, <<"c2">>}

\* The nil slice: what indexing a map gives for a key it does not hold.
NilCookies == <<>>

\* (a variant: the jar keyed by scheme and host)
JarKeyWithScheme(u) == <<u.Scheme, u.Host>>

\* The key of the map: u.Host.
JarKey(u) == u.Host

\* m[k] = v
MapSet(m, k, v) == [x \in DOMAIN m \cup {k} |-> IF x = k THEN v ELSE m[x]]

\* m[k]
MapGet(m, k) == IF k \in DOMAIN m THEN m[k] ELSE NilCookies

\* func (j *TestCookieJar) SetCookies(u *url.URL, cookies []*http.Cookie)
SetCookies(u, cookies) ==
    /\ Len(jarCalls) < MaxJarCalls
    /\ jar' = MapSet(jar, JarKey(u), cookies)
    /\ jarCalls' = Append(jarCalls, [method |-> "SetCookies", u |-> u, cookies |-> cookies])
    /\ UNCHANGED <<updaterVars, harnessVars, pc, op, arg, ret, hist, ghostGet, seen, closers>>

\* func (j *TestCookieJar) Cookies(u *url.URL) []*http.Cookie
Cookies(u) ==
    /\ Len(jarCalls) < MaxJarCalls
    /\ jarCalls' = Append(jarCalls, [method |-> "Cookies", u |-> u,
                                     cookies |-> MapGet(jar, JarKey(u))])
    /\ UNCHANGED <<updaterVars, harnessVars, pc, op, arg, ret, hist, ghostGet, seen, closers,
                   jar>>

\* ----------------------------------------------------------- specifications
UpdaterStep(p) ==
    \/ SetLatestVersionLegacyCall(p)
    \/ SetLatestVersionLegacyWrite(p)
    \/ GetVersionInfoLegacyCall(p)
    \/ GetVersionInfoLegacyRead(p)
    \/ SetLatestVersionCall(p)
    \/ SetLatestVersionWrite(p)
    \/ GetVersionInfoCall(p)
    \/ GetVersionInfoRead(p)
    \/ InstallUpdateLegacy(p)
    \/ RemoveOldUpdates(p)
    \/ InstallUpdate(p)
    \/ Lock(p)
    \/ LockEnter(p)
    \/ Unlock(p)
    \/ RUnlock(p)
    \/ Return(p)

HarnessStep(p) ==
    \/ GetTLSIssueCh(p)
    \/ Close(p)
    \/ OtherClose(p)
    \/ OtherSend(p)
    \/ OtherRecv(p)

Next == \E p \in Procs : UpdaterStep(p) \/ HarnessStep(p)

Spec == Init /\ [][Next]_vars

\* The TestUpdater and the channel share no variable: the calls on each, alone.
NextUpdater == \E p \in Procs : UpdaterStep(p)

\* The calls on the TestUpdater one after the other: no goroutine takes a step
\* while another is in a call (so no call ever waits for the lock).
Alone(p) == \A q \in Procs \ {p} : ~InCall(q)

NextSeq ==
    \E p \in Procs :
        \/ Alone(p) /\ SetLatestVersionLegacyCall(p)
        \/ Alone(p) /\ SetLatestVersionLegacyWrite(p)
        \/ Alone(p) /\ GetVersionInfoLegacyCall(p)
        \/ Alone(p) /\ GetVersionInfoLegacyRead(p)
        \/ Alone(p) /\ SetLatestVersionCall(p)
        \/ Alone(p) /\ SetLatestVersionWrite(p)
        \/ Alone(p) /\ GetVersionInfoCall(p)
        \/ Alone(p) /\ GetVersionInfoRead(p)
        \/ Alone(p) /\ InstallUpdateLegacy(p)
        \/ Alone(p) /\ RemoveOldUpdates(p)
        \/ Alone(p) /\ InstallUpdate(p)
        \/ Alone(p) /\ Unlock(p)
        \/ Alone(p) /\ RUnlock(p)
        \/ Alone(p) /\ Return(p)

SpecSeq == Init /\ [][NextSeq]_vars

SpecUpdater == Init /\ [][NextUpdater]_vars

\* The steps of a call of goroutine p after the call itself.
Continue(p) ==
    \/ SetLatestVersionLegacyWrite(p)
    \/ GetVersionInfoLegacyRead(p)
    \/ SetLatestVersionWrite(p)
    \/ GetVersionInfoRead(p)
    \/ LockEnter(p)
    \/ Unlock(p)
    \/ RUnlock(p)
    \/ Return(p)

\* Fair scheduling. Nothing makes a goroutine call: there is no fairness on the
\* calls. A goroutine that can run does run in the end (the Go scheduler): weak
\* fairness on the steps of a call. A goroutine waiting in Lock() for the
\* writers' mutex gets it in the end although other writers take it in between
\* (sync.Mutex hands the mutex to a waiter that has waited long): strong
\* fairness on Lock. (Each of these steps moves the goroutine: pc changes.)
Fairness == \A p \in Procs : WF_pc(Continue(p)) /\ SF_pc(Lock(p))

SpecFair == Init /\ [][NextUpdater]_vars /\ Fairness

\* The setters and the getters, the getters' arguments noted.
NextArgs ==
    \E p \in Procs :
        \/ GetVersionInfoLegacyTraced(p)
        \/ GetVersionInfoLegacyRead(p)
        \/ GetVersionInfoTraced(p)
        \/ GetVersionInfoRead(p)
        \/ SetLatestVersionLegacyCall(p)
        \/ SetLatestVersionLegacyWrite(p)
        \/ SetLatestVersionCall(p)
        \/ SetLatestVersionWrite(p)
        \/ Lock(p)
        \/ LockEnter(p)
        \/ Unlock(p)
        \/ RUnlock(p)

SpecArgs == Init /\ [][NextArgs]_vars

\* The calls on a TestCookieJar, one after the other (it has no lock).
NextJar ==
    \/ \E u \in URLs, cookies \in CookieLists : SetCookies(u, cookies)
    \/ \E u \in URLs : Cookies(u)

SpecJar == Init /\ [][NextJar]_vars

\* The calls NewMocks programmed the mocks for, from any goroutines, and the
\* controller's evaluation.
NextMocks ==
    \E p \in Procs :
        \/ GetTLSIssueCh(p)
        \/ HandlePanic(p)
        \/ IsTelemetryAvailable(p)
        \/ GetHeartbeatPeriodicInterval(p)
        \/ ReportSyncFailure(p)
        \/ Finish(p)
        \/ Return(p)

SpecMocks == Init /\ [][NextMocks]_vars

NextHarness == \E p \in Procs : HarnessStep(p) \/ Return(p)

SpecHarness == Init /\ [][NextHarness]_vars

\* ------------------------------------------------------------------- claims
Last(q) == q[Len(q)]

AtResult(p, o) == op[p] = o /\ pc[p] = (IF o \in Getters THEN "RUnlock" ELSE "Ret")

\* What a Get is to return when the field's latest write had arguments a.
LegacyResult(a) ==
    [val |-> VersionInfoLegacy(a[1], a[2], FullRollout), err |-> NilErr, panic |-> NoPanic]

ReleasesResult(a) == [val |-> a[1], err |-> NilErr, panic |-> NoPanic]

\* C1: with the calls made one after the other, once a SetLatestVersionLegacy
\* call has returned, GetVersionInfoLegacy returns the version and minAuto of the
\* SetLatestVersionLegacy call that returned last, RolloutProportion 1.0, and a
\* nil error.
C1_LastLegacySetIsRead ==
    \A p \in Procs :
        (AtResult(p, "GetVersionInfoLegacy") /\ Len(hist["legacy"]) >= 2)
            => ret[p] = LegacyResult(Last(hist["legacy"]))

\* A read after two SetLatestVersionLegacy calls with different arguments.
C1_Witness ==
    \E p \in Procs :
        /\ AtResult(p, "GetVersionInfoLegacy")
        /\ Len(hist["legacy"]) = 3
        /\ hist["legacy"][2] # hist["legacy"][3]

\* The (version, minAuto) pairs written so far: by the constructor, by the
\* SetLatestVersionLegacy calls that returned and by those in progress.
LegacyWrites ==
    {hist["legacy"][k] : k \in 1..Len(hist["legacy"])}
        \cup {arg[q] : q \in {r \in Procs : InCall(r) /\ op[r] = "SetLatestVersionLegacy"}}

\* C2: with the goroutines' calls interleaved, the record GetVersionInfoLegacy
\* returns has its Version and its MinAuto from one and the same write.
C2_NoTornLegacyRead ==
    \A p \in Procs :
        AtResult(p, "GetVersionInfoLegacy")
            => \E w \in LegacyWrites :
                   ret[p].val.Version = w[1] /\ ret[p].val.MinAuto = w[2]

\* A read that is complete while a writer with other versions waits for the lock.
C2_Witness ==
    \E p, q \in Procs :
        /\ AtResult(p, "GetVersionInfoLegacy")
        /\ op[q] = "SetLatestVersionLegacy"
        /\ pc[q] = "LockWait"
        /\ arg[q][1] # ret[p].val.Version
        /\ arg[q][2] # ret[p].val.MinAuto

\* The value of field f that a write with arguments a leaves.
WrittenValue(f, a) ==
    IF f = "legacy" THEN VersionInfoLegacy(a[1], a[2], FullRollout) ELSE a[1]

\* C3: the writes of a field are ordered as they return; a Get called after k of
\* them have returned reads the value of write k or of a later write, and the
\* successive Gets of one goroutine never go back to an earlier write.
C3_ReadsFollowWrites ==
    \A p \in Procs :
        (pc[p] = "RUnlock" /\ op[p] \in Getters)
            => LET f == FieldOf(op[p]) IN
               /\ startSeq[p] <= readSeq[p]
               /\ readSeq[p] <= Len(hist[f])
               /\ ret[p].val = WrittenValue(f, hist[f][readSeq[p]])
               /\ (p = Poller => seen[f] <= readSeq[p])

\* One goroutine has set A and then B; the poller, which saw A before and called
\* GetVersionInfo while B was being set, now has B.
C3_Witness ==
    /\ Len(hist["releases"]) = 3
    /\ hist["releases"][2] # hist["releases"][3]
    /\ AtResult(Poller, "GetVersionInfo")
    /\ seen["releases"] = 2
    /\ startSeq[Poller] = 2
    /\ readSeq[Poller] = 3
    /\ ret[Poller].val = hist["releases"][3][1]

\* C4: with the calls made one after the other, once a SetLatestVersion call has
\* returned, GetVersionInfo returns the argument of the SetLatestVersion call
\* that returned last, as it was passed, and a nil error.
C4_LastReleasesSetIsRead ==
    \A p \in Procs :
        (AtResult(p, "GetVersionInfo") /\ Len(hist["releases"]) >= 2)
            => ret[p] = ReleasesResult(Last(hist["releases"]))

\* A read after two SetLatestVersion calls with different arguments.
C4_Witness ==
    \E p \in Procs :
        /\ AtResult(p, "GetVersionInfo")
        /\ Len(hist["releases"]) = 3
        /\ hist["releases"][2] # hist["releases"][3]

\* The goroutines that a close of a closed channel made panic, in operation o.
CloseFaulted(o) ==
    {p \in Procs : op[p] = o /\ pc[p] = "panicked"
                   /\ ret[p].panic = "close of closed channel"}

\* The places in closers of the calls made as o, from place i on.
ClosesFrom(i, o) == {k \in i..Len(closers) : closers[k] = o}

\* C5: when the first close of the channel is a call of Mocks.Close, that call
\* returns and leaves TLSIssueCh closed, and every later call of Mocks.Close
\* panics with "close of closed channel".
C5_SecondCloseFaults ==
    (closers # <<>> /\ closers[1] = "Mocks.Close")
        => /\ chans[TLSIssueCh].closed
           /\ Cardinality(CloseFaulted("Mocks.Close"))
                = Cardinality(ClosesFrom(2, "Mocks.Close"))
           /\ \A p \in Procs : AtResult(p, "Mocks.Close") => ret[p] = NoRet

\* Mocks.Close was called twice and nothing else closed the channel.
C5_Witness ==
    /\ closers = <<"Mocks.Close", "Mocks.Close">>
    /\ CloseFaulted("Mocks.Close") # {}

InstallOps == {"InstallUpdateLegacy", "RemoveOldUpdates", "InstallUpdate"}

\* C6: whatever its arguments and whatever the other goroutines are doing, a
\* call of InstallUpdateLegacy, InstallUpdate or RemoveOldUpdates has a nil
\* error to return, and neither its step nor its return changes
\* testUpdater.latest or testUpdater.releases.
C6_InstallsDoNothing ==
    [][\A p \in Procs :
          /\ (pc[p] = "idle" /\ pc'[p] = "Ret" /\ op'[p] \in InstallOps)
                => /\ ret'[p] = NoRet
                   /\ latest' = latest
                   /\ releases' = releases
          /\ (pc[p] = "Ret" /\ op[p] \in InstallOps /\ pc'[p] = "idle")
                => /\ ret[p].err = NilErr
                   /\ latest' = latest
                   /\ releases' = releases]_vars

\* InstallUpdate is about to return while a writer is half way through its
\* assignment.
C6_Witness ==
    \E p, q \in Procs :
        /\ AtResult(p, "InstallUpdate")
        /\ op[q] = "SetLatestVersionLegacy"
        /\ pc[q] = "W2"
        /\ latest.Version # hist["legacy"][1][1]

\* C7: every call of GetTLSIssueCh returns the channel that NewMocks made and
\* put in the TLSIssueCh field, the one Mocks.Close closes; the field keeps it.
C7_SameChannel ==
    /\ TLSIssueCh = MakeChan
    /\ \A p \in Procs :
          AtResult(p, "GetTLSIssueCh")
              => /\ ret[p].val = TLSIssueCh
                 /\ ("Mocks.Close" \in {closers[k] : k \in 1..Len(closers)}
                        => chans[ret[p].val].closed)

\* Two goroutines have the channel from GetTLSIssueCh, after Mocks.Close.
C7_Witness ==
    /\ closers = <<"Mocks.Close">>
    /\ \E p, q \in Procs :
          p # q /\ AtResult(p, "GetTLSIssueCh") /\ AtResult(q, "GetTLSIssueCh")

\* A writer of field f is past its first assignment and has not returned.
Writing(f) ==
    \E p \in Procs : op[p] \in Setters /\ FieldOf(op[p]) = f /\ pc[p] \in {"W2", "Unlock"}

\* The step is one of goroutine p in operation o.
StepOf(p, o) == op[p] = o /\ pc'[p] # pc[p]

\* C8: testUpdater.latest changes only in a step of SetLatestVersionLegacy and
\* testUpdater.releases only in a step of SetLatestVersion (so the other setter
\* and the getters leave it alone); and whatever was set in the other field,
\* each field holds what its own last returned write (or the constructor) gave.
C8_FieldsIndependent ==
    /\ [](~Writing("legacy") => latest = WrittenValue("legacy", Last(hist["legacy"])))
    /\ [](~Writing("releases") => releases = WrittenValue("releases", Last(hist["releases"])))
    /\ [][/\ latest' # latest => \E p \in Procs : StepOf(p, "SetLatestVersionLegacy")
          /\ releases' # releases => \E p \in Procs : StepOf(p, "SetLatestVersion")]_vars

\* GetVersionInfoLegacy has the constructor's record after a SetLatestVersion,
\* and releases holds what that call set.
C8_Witness ==
    \E p \in Procs :
        /\ AtResult(p, "GetVersionInfoLegacy")
        /\ Len(hist["legacy"]) = 1
        /\ Len(hist["releases"]) = 2
        /\ releases # ZeroVersionInfo
        /\ ret[p].val = WrittenValue("legacy", hist["legacy"][1])

\* C9: before any Set call, GetVersionInfoLegacy returns the constructor's
\* version and minAuto with RolloutProportion 1.0, and GetVersionInfo the zero
\* value; constructed with 1.0.0 and 0.9.0 that is {1.0.0, 0.9.0, 1.0}, and
\* after SetLatestVersionLegacy(2.0.0, 1.0.0) it is {2.0.0, 1.0.0, 1.0}.
C9_ConstructedRecords ==
    \A p \in Procs :
        /\ (AtResult(p, "GetVersionInfoLegacy") /\ SetsStarted = 0)
              => ret[p] = LegacyResult(hist["legacy"][1])
        /\ (AtResult(p, "GetVersionInfo") /\ SetsStarted = 0)
              => ret[p] = [val |-> ZeroVersionInfo, err |-> NilErr, panic |-> NoPanic]
        /\ (AtResult(p, "GetVersionInfoLegacy") /\ hist["legacy"] = << <<"1.0.0", "0.9.0">> >>)
              => ret[p].val = [Version |-> "1.0.0", MinAuto |-> "0.9.0",
                               RolloutProportion |-> 1]
        /\ (AtResult(p, "GetVersionInfoLegacy")
              /\ hist["legacy"] = << <<"1.0.0", "0.9.0">>, <<"2.0.0", "1.0.0">> >>)
              => ret[p].val = [Version |-> "2.0.0", MinAuto |-> "1.0.0",
                               RolloutProportion |-> 1]

\* The first read of a harness constructed with 1.0.0 and 0.9.0.
C9_Witness ==
    \E p \in Procs :
        /\ AtResult(p, "GetVersionInfoLegacy")
        /\ SetsStarted = 0
        /\ hist["legacy"] = << <<"1.0.0", "0.9.0">> >>

\* C10: only a close closes the channel and nothing of the harness sends on it;
\* a send by another goroutine that finds the channel closed, or is blocked when
\* it is closed, panics with "send on closed channel" (it neither returns nor
\* stays blocked), and when another goroutine closed the channel first, every
\* call of Mocks.Close panics with "close of closed channel".
C10_MisuseFaults ==
    /\ chans[TLSIssueCh].closed <=> closers # <<>>
    /\ \A p \in chans[TLSIssueCh].sendq : op[p] = "send" /\ pc[p] = "Send"
    /\ \A p \in Procs :
          (op[p] = "send" /\ (chans[TLSIssueCh].closed \/ arg[p] = <<"after close">>))
              => /\ pc[p] = "panicked"
                 /\ ret[p].panic = "send on closed channel"
    /\ (closers # <<>> /\ closers[1] = "close")
          => Cardinality(CloseFaulted("Mocks.Close"))
               = Cardinality(ClosesFrom(1, "Mocks.Close"))

\* Mocks.Close ran while one goroutine was blocked in a send; then another send
\* was tried.
C10_Witness ==
    /\ closers = <<"Mocks.Close">>
    /\ \E p, q \in Procs :
          /\ op[p] = "send" /\ arg[p] = <<"before close">> /\ pc[p] = "panicked"
          /\ op[q] = "send" /\ arg[q] = <<"after close">> /\ pc[q] = "panicked"

\* The value of the field a getter reads.
Stored(o) == IF FieldOf(o) = "legacy" THEN latest ELSE releases

\* C11: what GetVersionInfoLegacy and GetVersionInfo return is the stored value
\* of their field and a nil error, whatever context (a cancelled one included),
\* downloader and channel they were called with: two calls of the same getter
\* that hold the read lock together, made with different arguments, have the
\* same result.
C11_ArgumentsIgnored ==
    \A p \in Procs :
        (pc[p] = "RUnlock" /\ op[p] \in Getters)
            => /\ ret[p] = [val |-> Stored(op[p]), err |-> NilErr, panic |-> NoPanic]
               /\ \A q \in Procs :
                     (pc[q] = "RUnlock" /\ op[q] = op[p]) => ret[q] = ret[p]

\* After a Set, two calls of GetVersionInfoLegacy are about to return: one made
\* with a cancelled context, the other with a live one, another downloader
\* and another channel.
C11_Witness ==
    \E p, q \in Procs :
        /\ AtResult(p, "GetVersionInfoLegacy")
        /\ AtResult(q, "GetVersionInfoLegacy")
        /\ Len(hist["legacy"]) = 2
        /\ arg[p][1] = "cancelled"
        /\ arg[q][1] = "live"
        /\ arg[p][2] # arg[q][2]
        /\ arg[p][3] # arg[q][3]

\* Goroutine p is between Lock() and Unlock() of a setter.
InWrite(p) == op[p] \in Setters /\ pc[p] \in {"W1", "W2", "Unlock"}

\* Goroutine p is between RLock() and RUnlock() of a getter.
InRead(p) == op[p] \in Getters /\ pc[p] \in {"R1", "R2", "RUnlock"}

\* C12: the one lock guards both fields: while a SetLatestVersionLegacy or a
\* SetLatestVersion call is inside its critical section, no other setter and no
\* getter, of either field, is inside its own; the writer inside is the one the
\* lock names and the readers inside are those the lock counts. (Two getters
\* inside together: C12_Witness.)
C12_WritersExclusive ==
    /\ \A p \in Procs :
          InWrite(p) => /\ lock = [writer |-> {p}, readers |-> {}]
                        /\ \A q \in Procs \ {p} : ~InWrite(q) /\ ~InRead(q)
    /\ lock.readers = {p \in Procs : InRead(p)}

\* After a Set, a GetVersionInfoLegacy and a GetVersionInfo call are inside
\* their critical sections together, each with half of its copy made.
C12_Witness ==
    \E p, q \in Procs :
        /\ op[p] = "GetVersionInfoLegacy" /\ pc[p] = "R2"
        /\ op[q] = "GetVersionInfo" /\ pc[q] = "R2"
        /\ SetsStarted > 0

\* Some goroutine in a call can take a step.
Progress == \E p \in Procs : Continue(p) \/ Lock(p)

\* C13: under fair scheduling every call of a TestUpdater method returns; no
\* reachable state with a call in progress is without a step of a call in
\* progress; a goroutine that is not in a call holds no lock, and the lock is
\* free when no call is in progress.
C13_CallsReturn ==
    /\ []((\E p \in Procs : InCall(p)) => ENABLED Progress)
    /\ [](\A p \in Procs : ~InCall(p) => p \notin lock.writer \cup lock.readers)
    /\ []((\A p \in Procs : ~InCall(p)) => lock = ZeroRWMutex)
    /\ \A p \in Procs : InCall(p) ~> ~InCall(p)

\* Every goroutine is in a call and all but one of them wait: for the writer
\* inside, which has made one Set before.
C13_Witness ==
    \E q \in Procs :
        /\ InWrite(q)
        /\ Len(hist["legacy"]) + Len(hist["releases"]) > 2
        /\ \A p \in Procs \ {q} : pc[p] \in {"RWait", "Lock"}

\* The methods NewMocks programmed.
Programmed ==
    {"GetTLSIssueCh", "HandlePanic", "IsTelemetryAvailable", "GetHeartbeatPeriodicInterval",
     "ReportMessageWithContext"}

\* The expectations for a method that have answered a call.
Answered(recv, method) ==
    {k \in 1..Len(expectations) :
        expectations[k].recv = recv /\ expectations[k].method = method /\ ctl.calls[k] > 0}

\* C14: whatever number of calls (none included) the goroutines make, in any
\* interleaving, of HandlePanic and IsTelemetryAvailable with any argument, of
\* GetHeartbeatPeriodicInterval, of GetTLSIssueCh and of
\* ReportMessageWithContext with "Failed to sync, will retry later" and any
\* context, the controller reports no unexpected call and, when evaluated, no
\* missing call; every call is answered, and GetHeartbeatPeriodicInterval
\* returns 500 milliseconds.
C14_ProgrammedCallsPass ==
    /\ ctl.failures = {}
    /\ \A p \in Procs :
          /\ (pc[p] = "Ret" /\ op[p] \in Programmed) => ret[p].panic = NoPanic
          /\ AtResult(p, "GetHeartbeatPeriodicInterval") => ret[p].val = 500

\* The controller has been evaluated after two calls of HandlePanic with
\* different arguments (one of them about to return) and none of
\* IsTelemetryAvailable, and a call of GetHeartbeatPeriodicInterval is about to
\* return.
C14_Witness ==
    /\ ctl.finished
    /\ ctl.ncalls = 3
    /\ Answered("Heartbeat", "IsTelemetryAvailable") = {}
    /\ \E k \in Answered("CrashHandler", "HandlePanic") : ctl.calls[k] = 2
    /\ \E p, q \in Procs :
          /\ AtResult(p, "GetHeartbeatPeriodicInterval")
          /\ AtResult(q, "HandlePanic")
          /\ arg[q] = <<"runtime error">>

\* C16: in every reachable state, at construction and in the middle of or after
\* any operation with any arguments, testUpdater.latest.RolloutProportion is
\* 1.0, and so is the RolloutProportion of every record GetVersionInfoLegacy
\* is about to return.
C16_RolloutAlwaysFull ==
    /\ latest.RolloutProportion = 1
    /\ \A p \in Procs :
          AtResult(p, "GetVersionInfoLegacy") => ret[p].val.RolloutProportion = 1

\* A second SetLatestVersionLegacy, with other versions than the first, has made
\* its assignment and not returned yet, while an InstallUpdateLegacy call is
\* about to return.
C16_Witness ==
    \E p, q \in Procs :
        /\ op[p] = "SetLatestVersionLegacy" /\ pc[p] = "Unlock"
        /\ Len(hist["legacy"]) = 2
        /\ arg[p] # hist["legacy"][2]
        /\ AtResult(q, "InstallUpdateLegacy")

\* Goroutine p is in a Set call with the arguments of the Set call (or of the
\* construction) that wrote the same field last.
Repeats(p) ==
    op[p] \in Setters /\ InCall(p) /\ arg[p] = Last(hist[FieldOf(op[p])])

\* C17: with the calls made one after the other, a SetLatestVersionLegacy or
\* SetLatestVersion call with the arguments of the call that set the field last
\* changes neither field in any of its steps, and leaves the lock as it found
\* it: after the second call the store is as it was after the first.
C17_SetIdempotent ==
    [][\A p \in Procs :
          Repeats(p) => /\ latest' = latest
                        /\ releases' = releases
                        /\ (pc'[p] = "idle" => lock' = ZeroRWMutex)]_vars

\* SetLatestVersionLegacy has returned once, with other versions than the
\* constructor's, and a second call with the same versions has made its
\* assignment.
C17_Witness ==
    \E p \in Procs :
        /\ op[p] = "SetLatestVersionLegacy" /\ pc[p] = "Unlock"
        /\ Len(hist["legacy"]) = 2
        /\ hist["legacy"][2] # hist["legacy"][1]
        /\ arg[p] = hist["legacy"][2]

\* The SetCookies calls before call k whose URL has the Host of u.
SetsFor(u, k) ==
    {i \in 1..(k - 1) : jarCalls[i].method = "SetCookies" /\ jarCalls[i].u.Host = u.Host}

\* C18: after any sequence of SetCookies calls, Cookies(u) returns the list
\* passed to the last SetCookies call whose URL has the Host of u, whatever the
\* schemes and paths, that list alone (not joined to earlier ones), and the
\* empty result when there was no such call; so SetCookies for one host leaves
\* what Cookies returns for another host as it was.
C18_JarKeyedByHost ==
    \A k \in 1..Len(jarCalls) :
        jarCalls[k].method = "Cookies"
            => LET sets == SetsFor(jarCalls[k].u, k) IN
               IF sets = {}
               THEN jarCalls[k].cookies = <<>>
               ELSE jarCalls[k].cookies
                      = jarCalls[CHOOSE i \in sets : \A j \in sets : j <= i].cookies

\* Two SetCookies calls for one host, under different schemes and paths and
\* with different lists, then Cookies for that host.
C18_Witness ==
    /\ Len(jarCalls) = 3
    /\ jarCalls[1].method = "SetCookies"
    /\ jarCalls[2].method = "SetCookies"
    /\ jarCalls[3].method = "Cookies"
    /\ jarCalls[1].u.Host = jarCalls[2].u.Host
    /\ jarCalls[3].u.Host = jarCalls[2].u.Host
    /\ jarCalls[1].u.Scheme # jarCalls[2].u.Scheme
    /\ jarCalls[3].u.Scheme # jarCalls[2].u.Scheme
    /\ jarCalls[1].cookies # jarCalls[2].cookies
    /\ jarCalls[3].cookies = jarCalls[2].cookies

\* C19: InstallUpdateLegacy, InstallUpdate and RemoveOldUpdates never take the
\* lock: an idle goroutine can call each of them, and a goroutine in one of
\* them can return, in every state (so also while a writer or a reader is
\* inside its critical section, or waits); a goroutine in one of them neither
\* holds nor waits for the lock, and its steps leave the lock as it is.
C19_InstallsTakeNoLock ==
    /\ [](\A p \in Procs :
            /\ pc[p] = "idle" => /\ ENABLED InstallUpdateLegacy(p)
                                 /\ ENABLED InstallUpdate(p)
                                 /\ ENABLED RemoveOldUpdates(p)
            /\ op[p] \in InstallOps => /\ pc[p] = "Ret"
                                        /\ ENABLED Return(p)
                                        /\ p \notin lock.writer \cup lock.readers)
    /\ [][\A p \in Procs :
            ((op[p] \in InstallOps \/ op'[p] \in InstallOps) /\ pc'[p] # pc[p])
                => lock' = lock]_vars

\* RemoveOldUpdates is about to return while a SetLatestVersion call is half
\* way through its assignment.
C19_Witness ==
    \E p, q \in Procs :
        /\ AtResult(p, "RemoveOldUpdates")
        /\ op[q] = "SetLatestVersion"
        /\ pc[q] = "W2"

====
